---- MODULE Spec2Model ----
(***************************************************************************)
(* DocuSync: the documentation pipeline of src/src/orchestrator.py with    *)
(* its collaborators (coderabbit.py, daytona_server.py, galileo_server.py).*)
(*                                                                         *)
(* Text is modelled as a sequence of tokens.  A token is an atom of text   *)
(* that no test of the code cuts in two: '+', '-', '/', ' ', the newline,  *)
(* the fence, a file-name part, a word.  startswith, endswith, replace,    *)
(* split, strip and the substring tests of the code are computed on these  *)
(* sequences as the code computes them on characters.                      *)
(*                                                                         *)
(* Scores are exact rationals: a sub-score is kept in hundredths and an    *)
(* overall score in 1/300 (the sum of the three sub-scores in hundredths),   *)
(* so (a + t + c) / 3.0 loses nothing.  min_doc_quality_score is kept in   *)
(* 1/300 as well.                                                          *)
(*                                                                         *)
(* Spec is repeated runs of process_code_changes on one orchestrator,      *)
(* ParseSpec is structure_code_changes on generated diffs, LifecycleSpec   *)
(* is the programs that own an orchestrator (a library caller,             *)
(* mcp_server.py, src/api.py) with cleanup and their exits.                *)
(***************************************************************************)
EXTENDS Integers, Sequences, FiniteSets, TLC

\* ------------------------------------------------------------------ bounds
MaxSections == 3
MaxAttemptsCfg == 2
MaxSandboxes == 2
MaxCleanups == 3
MaxRequests == 2

\* ------------------------------------------------------------ text helpers
NL == "\n"
SP == " "
\* the three-backquote fence of a markdown code block
FENCE == "<fence>"
DIFF_GIT == "diff --git"

Min(a, b) == IF a < b THEN a ELSE b
Max(a, b) == IF a > b THEN a ELSE b

StartsWith(s, p) ==
    Len(s) >= Len(p) /\ SubSeq(s, 1, Len(p)) = p

EndsWith(s, p) ==
    Len(s) >= Len(p) /\ SubSeq(s, Len(s) - Len(p) + 1, Len(s)) = p

Take(s, n) == SubSeq(s, 1, Min(n, Len(s)))

\* str.replace(old, ''): every occurrence of old, left to right, is removed
RECURSIVE Remove(_, _)
Remove(s, old) ==
    IF Len(s) = 0 THEN <<>>
    ELSE IF StartsWith(s, old) THEN Remove(SubSeq(s, Len(old) + 1, Len(s)), old)
    ELSE <<Head(s)>> \o Remove(Tail(s), old)

\* sep.join(parts)
RECURSIVE Join(_, _)
Join(parts, sep) ==
    IF Len(parts) = 0 THEN <<>>
    ELSE IF Len(parts) = 1 THEN parts[1]
    ELSE parts[1] \o sep \o Join(Tail(parts), sep)

\* str.split(sep) for a one-token separator: always at least one part, the
\* j-th part lying between the (j-1)-th and the j-th separator
Split(s, sep) ==
    LET at == {i \in 1..Len(s) : s[i] = sep}
        n == Cardinality(at)
        cut(j) == IF j = 0 THEN 0
                  ELSE IF j > n THEN Len(s) + 1
                  ELSE CHOOSE i \in at : Cardinality({m \in at : m <= i}) = j
    IN  [j \in 1..(n + 1) |-> SubSeq(s, cut(j - 1) + 1, cut(j) - 1)]

Whitespace == {SP, NL}

\* str.strip(): from the first to the last token that is not whitespace
Strip(s) ==
    LET solid == {i \in 1..Len(s) : s[i] \notin Whitespace}
    IN  IF solid = {} THEN <<>>
        ELSE SubSeq(s, CHOOSE i \in solid : \A j \in solid : i <= j,
                       CHOOSE i \in solid : \A j \in solid : i >= j)

\* ------------------------------------------------- coderabbit.py: the parser
PLUS3 == <<"+", "+", "+">>
MINUS3 == <<"-", "-", "-">>

\* ext_map, in the order the code walks it
ExtMap ==
    << <<".py", "python">>, <<".js", "javascript">>, <<".ts", "typescript">>,
       <<".java", "java">>, <<".cpp", "cpp">>, <<".c", "c">>, <<".go", "go">>,
       <<".rs", "rust">>, <<".rb", "ruby">>, <<".php", "php">>,
       <<".md", "markdown">>, <<".json", "json">>, <<".yaml", "yaml">>,
       <<".yml", "yaml">> >>

RECURSIVE DetectFrom(_, _)
DetectFrom(file_path, i) ==
    IF i > Len(ExtMap) THEN "unknown"
    ELSE IF EndsWith(file_path, <<ExtMap[i][1]>>) THEN ExtMap[i][2]
    ELSE DetectFrom(file_path, i + 1)

DetectLanguage(file_path) == DetectFrom(file_path, 1)

LowLimit == 10
MediumLimit == 50

\* a slip: the thresholds are taken inclusive
AssessComplexityInclusive(added, removed) ==
    LET total_lines == Len(added) + Len(removed)
    IN  IF total_lines <= LowLimit THEN "low"
        ELSE IF total_lines <= MediumLimit THEN "medium"
        ELSE "high"

AssessComplexity(added, removed) ==
    LET total_lines == Len(added) + Len(removed)
    IN  IF total_lines < LowLimit THEN "low"
        ELSE IF total_lines < MediumLimit THEN "medium"
        ELSE "high"

GenerateSummary(added, removed) ==
    IF Len(added) = 0 /\ Len(removed) = 0 THEN <<"No", SP, "changes", SP, "detected">>
    ELSE IF Len(removed) = 0 THEN <<"Added", SP, ToString(Len(added)), SP, "lines">>
    ELSE IF Len(added) = 0 THEN <<"Removed", SP, ToString(Len(removed)), SP, "lines">>
    ELSE <<"Modified:", SP, ToString(Len(added)), SP, "lines", SP, "added,", SP,
           ToString(Len(removed)), SP, "lines", SP, "removed">>

\* current_file = None and current_file = '' are both false in the test 'if current_file:',
\* the only place the code looks at it before it is a path
NoFile == <<>>

CodeChange(current_file, current_type, added_lines, removed_lines) ==
    [file_path |-> current_file,
     change_type |-> current_type,
     lines_added |-> added_lines,
     lines_removed |-> removed_lines,
     language |-> DetectLanguage(current_file),
     complexity |-> AssessComplexity(added_lines, removed_lines),
     summary |-> GenerateSummary(added_lines, removed_lines)]

ParseInit ==
    [changes |-> <<>>, current_file |-> NoFile, current_type |-> "modified",
     added_lines |-> <<>>, removed_lines |-> <<>>]

\* the path a '+++' line sets
MarkerPath(line) ==
    Remove(Remove(line, <<"+", "+", "+", SP, "b", "/">>), <<"+", "+", "+", SP, "a", "/">>)

\* a section is closed (its record emitted) only when a file path is set
CloseSection(st) ==
    IF st.current_file # NoFile
    THEN Append(st.changes,
                CodeChange(st.current_file, st.current_type, st.added_lines, st.removed_lines))
    ELSE st.changes

\* one turn of the loop over the lines of the diff
ParseLine(st, line) ==
    IF StartsWith(line, <<DIFF_GIT>>)
    THEN [st EXCEPT !.changes = CloseSection(st), !.added_lines = <<>>, !.removed_lines = <<>>]
    ELSE IF StartsWith(line, PLUS3) \/ StartsWith(line, MINUS3)
    THEN IF StartsWith(line, PLUS3)
         THEN [st EXCEPT !.current_file = MarkerPath(line)]
         ELSE st
    ELSE IF StartsWith(line, <<"+">>) /\ ~StartsWith(line, PLUS3)
    THEN [st EXCEPT !.added_lines = Append(@, Tail(line))]
    ELSE IF StartsWith(line, <<"-">>) /\ ~StartsWith(line, MINUS3)
    THEN [st EXCEPT !.removed_lines = Append(@, Tail(line))]
    ELSE st

RECURSIVE ParseLines(_, _)
ParseLines(st, lines) ==
    IF Len(lines) = 0 THEN st
    ELSE ParseLines(ParseLine(st, Head(lines)), Tail(lines))

ParseDiff(diff_content) ==
    CloseSection(ParseLines(ParseInit, Split(diff_content, NL)))

\* ------------------------------------- coderabbit.py: structure_code_changes
SnippetLines == 10

StructuredChange(change) ==
    [file_path |-> change.file_path,
     change_type |-> change.change_type,
     language |-> change.language,
     complexity |-> change.complexity,
     summary |-> change.summary,
     lines_added |-> Len(change.lines_added),
     lines_removed |-> Len(change.lines_removed),
     code_snippets |-> [added |-> Take(change.lines_added, SnippetLines),
                        removed |-> Take(change.lines_removed, SnippetLines)]]

RECURSIVE SumLen(_, _)
SumLen(changes, field) ==
    IF Len(changes) = 0 THEN 0
    ELSE Len(Head(changes)[field]) + SumLen(Tail(changes), field)

AnalyzeChanges(changes) ==
    [total_files |-> Len(changes),
     total_lines_added |-> SumLen(changes, "lines_added"),
     total_lines_removed |-> SumLen(changes, "lines_removed"),
     languages |-> {changes[i].language : i \in 1..Len(changes)},
     complexity_summary |->
         [c \in {changes[i].complexity : i \in 1..Len(changes)} |->
             Cardinality({i \in 1..Len(changes) : changes[i].complexity = c})]]

StructureCodeChanges(diff) ==
    LET changes == ParseDiff(diff)
    IN  [total_changes |-> Len(changes),
         changes |-> [i \in 1..Len(changes) |-> StructuredChange(changes[i])],
         analysis |-> AnalyzeChanges(changes)]

\* ------------------------------------- orchestrator.py: the pure helpers
FallbackLines == 5
ChangeSnippetLines == 20

\* the doc_lines one change record appends
FallbackSection(change) ==
    << <<"##", SP>> \o change.file_path \o <<NL>>,
       <<"**Change", SP, "Type:**", SP, change.change_type, NL>>,
       <<"**Summary:**", SP>> \o change.summary \o <<NL>>,
       <<"**Language:**", SP, change.language, NL>> >>
    \o (IF Len(change.code_snippets.added) > 0
        THEN << <<NL, "###", SP, "Added", SP, "Code", NL, FENCE>>,
                Join(Take(change.code_snippets.added, FallbackLines), <<NL>>),
                <<FENCE, NL>> >>
        ELSE <<>>)

RECURSIVE FallbackSections(_)
FallbackSections(changes) ==
    IF Len(changes) = 0 THEN <<>>
    ELSE FallbackSection(Head(changes)) \o FallbackSections(Tail(changes))

FallbackDocumentation(structured) ==
    Join(<< <<"#", SP, "Documentation", SP, "Update", NL>> >>
         \o FallbackSections(structured.changes), <<NL>>)

\* the tokens that hold a character outside [A-Za-z0-9_]; \w+ matches the others
NonWord ==
    {SP, NL, FENCE, DIFF_GIT, "+", "-", "/", "#", "##", "###", "**Change", "Type:**",
     "**Summary:**", "**Language:**", "Modified:", "added,", "@@"}
    \cup {ExtMap[i][1] : i \in 1..Len(ExtMap)}

IsWord(t) == t \notin NonWord

\* index of the first fence of s at or after i, 0 when there is none
NextFence(s, i) ==
    LET later == {j \in i..Len(s) : s[j] = FENCE}
    IN  IF later = {} THEN 0 ELSE CHOOSE j \in later : \A m \in later : j <= m

\* re.findall(fence (\w+)? \n (.*?) fence, DOTALL): the (lang, code) pairs, scanning
\* from token start
FindBlocks(s, start) ==
    LET blocks[i \in 1..(Len(s) + 1)] ==
            IF i > Len(s) THEN <<>>
            ELSE IF s[i] # FENCE THEN blocks[i + 1]
            ELSE LET withLang == i + 2 <= Len(s) /\ IsWord(s[i + 1]) /\ s[i + 2] = NL
                     noLang == i + 1 <= Len(s) /\ s[i + 1] = NL
                     body == IF withLang THEN i + 3 ELSE i + 2
                     close == IF withLang \/ noLang THEN NextFence(s, body) ELSE 0
                 IN  IF close = 0 THEN blocks[i + 1]
                     ELSE <<[lang |-> IF withLang THEN <<s[i + 1]>> ELSE <<>>,
                             code |-> SubSeq(s, body, close - 1)]>>
                          \o blocks[close + 1]
    IN  blocks[start]

DocSnippets(code_blocks) ==
    [i \in 1..Len(code_blocks) |->
        [id |-> <<"snippet_", ToString(i - 1)>>,
         code |-> Strip(code_blocks[i].code),
         language |-> IF code_blocks[i].lang # <<>> THEN code_blocks[i].lang[1] ELSE "python",
         source |-> "documentation"]]

RECURSIVE ChangeSnippets(_)
ChangeSnippets(changes) ==
    IF Len(changes) = 0 THEN <<>>
    ELSE (IF Len(Head(changes).code_snippets.added) > 0
          THEN <<[id |-> <<"change_">> \o Head(changes).file_path,
                  code |-> Join(Take(Head(changes).code_snippets.added, ChangeSnippetLines),
                                <<NL>>),
                  language |-> Head(changes).language,
                  source |-> "code_change"]>>
          ELSE <<>>)
         \o ChangeSnippets(Tail(changes))

ExtractCodeSnippets(documentation, structured) ==
    DocSnippets(FindBlocks(documentation, 1)) \o ChangeSnippets(structured.changes)

\* a slip: the directory is taken from the last changed file
DetermineDocPathOfLast(structured) ==
    IF Len(structured.changes) = 0 THEN <<"README", ".md">>
    ELSE LET last_file == structured.changes[Len(structured.changes)].file_path
             parts == Split(last_file, "/")
         IN  IF \E i \in 1..Len(last_file) : last_file[i] = "/"
             THEN Join(SubSeq(parts, 1, Len(parts) - 1), <<"/">>)
                  \o <<"/", "DOCUMENTATION", ".md">>
             ELSE <<"DOCUMENTATION", ".md">>

DetermineDocPath(structured) ==
    IF Len(structured.changes) = 0 THEN <<"README", ".md">>
    ELSE LET first_file == structured.changes[1].file_path
             parts == Split(first_file, "/")
         IN  IF \E i \in 1..Len(first_file) : first_file[i] = "/"
             THEN Join(SubSeq(parts, 1, Len(parts) - 1), <<"/">>)
                  \o <<"/", "DOCUMENTATION", ".md">>
             ELSE <<"DOCUMENTATION", ".md">>

\* --------------------------------------------------------- galileo_server.py
\* str.lower() on the tokens that hold an upper-case letter
Lower(t) ==
    CASE t = "Code" -> "code"
      [] t = "Added" -> "added"
      [] t = "Documentation" -> "documentation"
      [] t = "Update" -> "update"
      [] t = "Usage" -> "usage"
      [] t = "Example" -> "example"
      [] t = "Returns" -> "returns"
      [] OTHER -> t

\* word in text, for a word that is a token of its own wherever it occurs
HasWord(text, w) == \E i \in 1..Len(text) : text[i] = w

\* the tokens of text.lower()
LowerWords(text) == {Lower(text[i]) : i \in 1..Len(text)}

\* word in text.lower()
HasWordLower(text, w) == \E i \in 1..Len(text) : Lower(text[i]) = w

\* '# ' in text or '## ' in text
HasHeading(text) ==
    \E i \in 1..(Len(text) - 1) : text[i] \in {"#", "##", "###"} /\ text[i + 1] = SP

\* a token that stands for a paragraph of plain prose holds this many words
ProseWords == 60
PROSE == "<prose>"

\* len(text.split()): a word starts at each token that is not whitespace and
\* follows whitespace or nothing; a paragraph token adds the rest of its words
WordCount(text) ==
    Cardinality({i \in 1..Len(text) :
                    text[i] \notin Whitespace /\ (i = 1 \/ text[i - 1] \in Whitespace)})
    + (ProseWords - 1) * Cardinality({i \in 1..Len(text) : text[i] = PROSE})

Clamp(score) == Min(100, Max(0, score))

\* the loop over code_snippets: +0.05 for a success, -0.1 for a failure, nothing
\* for an entry whose execution_result is None
SnippetScore(code_snippets) ==
    LET ran == {i \in 1..Len(code_snippets) : ~code_snippets[i].execution_result.none}
    IN  5 * Cardinality({i \in ran : code_snippets[i].execution_result.success})
        - 10 * Cardinality({i \in ran : ~code_snippets[i].execution_result.success})

EvaluateAccuracy(documentation, code_snippets) ==
    Clamp(80 + SnippetScore(code_snippets)
          + (IF HasWord(documentation, FENCE) \/ HasWordLower(documentation, "code")
             THEN 5 ELSE 0))

ProfessionalWords == {"function", "method", "parameter", "returns", "example"}
UnprofessionalWords == {"gonna", "wanna", "kinda", "yeah"}

EvaluateTone(documentation) ==
    Clamp(70 + 2 * Cardinality(ProfessionalWords \cap LowerWords(documentation))
             - 5 * Cardinality(UnprofessionalWords \cap LowerWords(documentation)))

MinWords == 50
MaxWords == 1000

EvaluateClarity(documentation) ==
    LET word_count == WordCount(documentation)
    IN  Clamp(70 + (IF HasHeading(documentation) THEN 10 ELSE 0)
                 + (IF HasWordLower(documentation, "example")
                       \/ HasWord(documentation, FENCE) THEN 10 ELSE 0)
                 + (IF MinWords <= word_count /\ word_count <= MaxWords THEN 5 ELSE 0))

SubScoreFloor == 70

Issues ==
    <<"Documentation may contain inaccuracies", "Tone may not be appropriate",
      "Documentation clarity could be improved">>
Feedback ==
    <<"Review code examples for correctness",
      "Consider making the tone more professional and clear",
      "Add more examples and explanations">>

\* a slip: the clarity score is left out of the mean
EvaluationResultTwoScores(accuracy_score, tone_score, clarity_score) ==
    LET pick(texts) == (IF accuracy_score < SubScoreFloor THEN <<texts[1]>> ELSE <<>>)
                       \o (IF tone_score < SubScoreFloor THEN <<texts[2]>> ELSE <<>>)
                       \o (IF clarity_score < SubScoreFloor THEN <<texts[3]>> ELSE <<>>)
    IN  [accuracy_score |-> accuracy_score,
         tone_score |-> tone_score,
         clarity_score |-> clarity_score,
         overall_score |-> (3 * (accuracy_score + tone_score)) \div 2,
         feedback |-> pick(Feedback),
         issues |-> pick(Issues)]

\* a slip: a tone score of exactly 0.7 is reported as an issue, without feedback
EvaluationResultAtFloor(accuracy_score, tone_score, clarity_score) ==
    LET pick(texts) == (IF accuracy_score < SubScoreFloor THEN <<texts[1]>> ELSE <<>>)
                       \o (IF tone_score < SubScoreFloor THEN <<texts[2]>> ELSE <<>>)
                       \o (IF clarity_score < SubScoreFloor THEN <<texts[3]>> ELSE <<>>)
    IN  [accuracy_score |-> accuracy_score,
         tone_score |-> tone_score,
         clarity_score |-> clarity_score,
         overall_score |-> accuracy_score + tone_score + clarity_score,
         feedback |-> pick(Feedback),
         issues |-> (IF accuracy_score < SubScoreFloor THEN <<Issues[1]>> ELSE <<>>)
                    \o (IF tone_score <= SubScoreFloor THEN <<Issues[2]>> ELSE <<>>)
                    \o (IF clarity_score < SubScoreFloor THEN <<Issues[3]>> ELSE <<>>)]

\* the EvaluationResult built from the three sub-scores
EvaluationResult(accuracy_score, tone_score, clarity_score) ==
    LET pick(texts) == (IF accuracy_score < SubScoreFloor THEN <<texts[1]>> ELSE <<>>)
                       \o (IF tone_score < SubScoreFloor THEN <<texts[2]>> ELSE <<>>)
                       \o (IF clarity_score < SubScoreFloor THEN <<texts[3]>> ELSE <<>>)
    IN  [accuracy_score |-> accuracy_score,
         tone_score |-> tone_score,
         clarity_score |-> clarity_score,
         overall_score |-> accuracy_score + tone_score + clarity_score,
         feedback |-> pick(Feedback),
         issues |-> pick(Issues)]

\* each sub-score is computed once, then the result is built
EvaluateDocumentation(documentation, code_snippets) ==
    CHOOSE result \in
        {EvaluationResult(a, t, c) :
            a \in {EvaluateAccuracy(documentation, code_snippets)},
            t \in {EvaluateTone(documentation)},
            c \in {EvaluateClarity(documentation)}} : TRUE

\* ------------------------------------------------------------------ inputs
\* lines of a unified diff
HdrF == <<DIFF_GIT, SP, "a", "/", "src", "/", "f", ".py", SP, "b", "/", "src", "/", "f", ".py">>
OldF == <<"-", "-", "-", SP, "a", "/", "src", "/", "f", ".py">>
NewF == <<"+", "+", "+", SP, "b", "/", "src", "/", "f", ".py">>
HdrG == <<DIFF_GIT, SP, "a", "/", "g", ".js", SP, "b", "/", "g", ".js">>
NewG == <<"+", "+", "+", SP, "b", "/", "g", ".js">>
NewNull == <<"+", "+", "+", SP, "/", "dev", "/", "null">>
AddX == <<"+", "x">>
AddY == <<"+", "y">>
DelZ == <<"-", "z">>
Context == <<SP, "w">>

Text(lines) == Join(lines, <<NL>>)

\* the diffs handed to process_code_changes
EmptyDiff == <<>>
BlankDiff == <<SP, NL, SP>>
ProseDiff == <<"hello">>
OneFileDiff == Text(<<HdrF, OldF, NewF, Context, DelZ, AddX>>)
HeaderOnlyDiff == Text(<<HdrF, OldF, NewF>>)
TwoFileDiff == Text(<<HdrF, OldF, NewF, AddX, HdrG, NewG, AddY>>)
\* two commits of a patch series that touch the same file
SameFileTwiceDiff == Text(<<HdrF, OldF, NewF, AddX, HdrF, OldF, NewF, AddY>>)

\* one file at the top of the repository
RootFileDiff == Text(<<HdrG, NewG, AddY>>)

\* one file with more added lines than structure_code_changes keeps
LongChangeDiff == Text(<<HdrF, OldF, NewF>> \o [i \in 1..(SnippetLines + 1) |-> AddX])

PipelineDiffs ==
    {EmptyDiff, BlankDiff, ProseDiff, OneFileDiff, HeaderOnlyDiff, TwoFileDiff,
     SameFileTwiceDiff, RootFileDiff, LongChangeDiff}

\* texts the generation service may answer with
GoodDoc ==
    <<"#", SP, "Usage", NL, "example", SP, "function", NL, FENCE, "python", NL, "x", NL,
      FENCE, NL>>
PoorDoc == <<"yeah", SP, "gonna", SP, "wanna", SP, "kinda">>
LongDoc == <<"##", SP, "Usage", NL, PROSE, NL, FENCE, NL, "y", NL, FENCE>>

GeminiDocs == {GoodDoc, PoorDoc, LongDoc}

\* what sandbox.process.code_run / exec may answer with
Responses ==
    {[exit_code |-> 0, result |-> <<"ok">>], [exit_code |-> 1, result |-> <<"boom">>]}

\* min_doc_quality_score in 1/300: 0.5, 0.7, 0.9
MinScores == {150, 210, 270}

\* ------------------------------------------------------------------- state
VARIABLES
    gemini_client,                \* orchestrator: a generation client is configured
    daytona,                      \* DaytonaServer.daytona: a sandbox client is configured
    min_doc_quality_score,        \* config
    max_self_correction_attempts, \* config
    orchestrator,                 \* mcp_server.py: MCPOrchestrator() was built at load
    git_handler,                  \* mcp_server.py: GitHandler() was built at load
    sandbox,                      \* DaytonaServer.sandbox: 0 is None, else the handle
    created,                      \* sandboxes created so far (names the next handle)
    pc,                           \* where process_code_changes stands
    parsed,                       \* the list _parse_diff returned (ParseSpec)
    diff_content,
    structured_changes,
    documentation,
    code_snippets,
    results,                      \* execute_code_snippets: id -> ExecutionResult, as pairs
    k,                            \* execute_code_snippets: index of the next snippet
    execution_results,
    evaluation,
    attempts,
    ret,                          \* the DocumentationUpdate returned
    calls,                        \* history: collaborator calls of this run (failed: the
                                  \* generation calls that raised; stdout: the print
                                  \* calls, which write to standard output)
    first_score,                  \* history: overall_score of the first evaluation of this
                                  \* run, -1 before it
    last_eval,                    \* history: the arguments of the latest evaluation call
    broke,                        \* history: the loop was left by the break of a failed revision
    issued,                       \* history: the handles sandbox.delete() was called on
    deleted,                      \* history: the handles sandbox.delete() returned for
    cleanups,                     \* history: calls of DaytonaServer.cleanup so far
    last_cleanup,                 \* history: what the latest cleanup call did, and the
                                  \* value of created it saw
    owner,                        \* the program that constructed the orchestrator
    owner_pc,                     \* where that program stands
    handlers,                     \* api.py: the process_changes coroutines, each with
                                  \* the sandbox handles its pipeline run used, whether
                                  \* its diff was blank, whether it called broadcast
                                  \* and the status it answered with (0: not yet)
    tool                          \* mcp_server.py: the latest process_code_changes tool
                                  \* call: the diff given, the fetches made, the reply

config_vars ==
    <<gemini_client, daytona, min_doc_quality_score, max_self_correction_attempts,
      orchestrator, git_handler>>
sandbox_vars == <<sandbox, created>>
run_vars ==
    <<diff_content, structured_changes, documentation, code_snippets, results, k,
      execution_results, evaluation, attempts, ret>>
history_vars == <<calls, first_score, last_eval, broke>>
teardown_vars == <<issued, deleted, cleanups, last_cleanup>>
\* what no step of process_code_changes touches
outer_vars == <<config_vars, teardown_vars, parsed>>
owner_vars == <<owner, owner_pc, handlers, tool>>
vars ==
    <<config_vars, sandbox_vars, pc, parsed, run_vars, history_vars, teardown_vars,
      owner_vars>>

NoChanges == [total_changes |-> 0, changes |-> <<>>, analysis |-> AnalyzeChanges(<<>>)]
NoEvaluation ==
    [accuracy_score |-> 0, tone_score |-> 0, clarity_score |-> 0, overall_score |-> 0,
     feedback |-> <<>>, issues |-> <<>>]
NoUpdate ==
    [file_path |-> <<>>, content |-> <<>>, code_snippets |-> <<>>, evaluation_score |-> 0,
     ready_to_commit |-> FALSE]
NoCalls ==
    [structure |-> 0, generate |-> 0, revise |-> 0, failed |-> 0, create |-> 0,
     execute |-> 0, evaluate |-> 0, stdout |-> 0]
NoEval == [documentation |-> <<>>, code_snippets |-> <<>>]
NoCleanup == [did |-> "none", at |-> 0]
\* HTTP status codes: the default of a returned body, HTTPException(status_code=500)
Ok == 200
ServerError == 500
NoHandlers ==
    [r \in 1..MaxRequests |->
        [at |-> "new", handles |-> {}, blank |-> FALSE, broadcast |-> FALSE, status |-> 0]]
NoTool == [given |-> "none", fetched |-> <<>>, reply |-> "none"]

\* no cleanup call yet, no request yet
Untouched ==
    /\ issued = {}
    /\ deleted = {}
    /\ cleanups = 0
    /\ last_cleanup = NoCleanup
    /\ handlers = NoHandlers
    /\ tool = NoTool

\* MCPOrchestrator.__init__ has run: no sandbox, no run under way
Constructed ==
    /\ sandbox = 0
    /\ created = 0
    /\ pc = "idle"
    /\ parsed = <<>>
    /\ diff_content = <<>>
    /\ structured_changes = NoChanges
    /\ documentation = <<>>
    /\ code_snippets = <<>>
    /\ results = <<>>
    /\ k = 1
    /\ execution_results = <<>>
    /\ evaluation = NoEvaluation
    /\ attempts = 0
    /\ ret = NoUpdate
    /\ calls = NoCalls
    /\ first_score = -1
    /\ last_eval = NoEval
    /\ broke = FALSE
    /\ Untouched
    /\ owner_pc = "up"

Init ==
    /\ gemini_client \in BOOLEAN
    /\ daytona \in BOOLEAN
    /\ min_doc_quality_score \in MinScores
    /\ max_self_correction_attempts \in 0..MaxAttemptsCfg
    /\ orchestrator = TRUE
    /\ git_handler = TRUE
    /\ owner = "library"
    /\ Constructed

\* ------------------------------------------------------ daytona_server.py
\* Optional[str]: <<>> is None, <<text>> is a string
NoneStr == <<>>
Some(text) == <<text>>

CreateFailedResult ==
    [success |-> FALSE, exit_code |-> -1, output |-> <<>>,
     error |-> Some(<<"Failed", SP, "to", SP, "create", SP, "sandbox">>)]

RaisedResult ==
    [success |-> FALSE, exit_code |-> -1, output |-> <<>>, error |-> Some(<<"exception">>)]

ResponseResult(response) ==
    [success |-> response.exit_code = 0,
     exit_code |-> response.exit_code,
     output |-> response.result,
     error |-> IF response.exit_code = 0 THEN NoneStr ELSE Some(response.result)]

\* results[snippet_id] = result
Put(map, id, result) ==
    IF \E i \in 1..Len(map) : map[i].id = id
    THEN [i \in 1..Len(map) |-> IF map[i].id = id THEN [id |-> id, result |-> result] ELSE map[i]]
    ELSE Append(map, [id |-> id, result |-> result])

\* results.get(snippet_id): <<>> is None
Get(map, id) ==
    LET hits == {i \in 1..Len(map) : map[i].id = id}
    IN  IF hits = {} THEN <<>> ELSE <<map[CHOOSE i \in hits : TRUE].result>>

\* ------------------------------------------- orchestrator.py: the pipeline
\* a slip: the .strip() test is forgotten
IsBlankNoStrip(text) == Len(text) = 0

IsBlank(text) == \A i \in 1..Len(text) : text[i] \in Whitespace

\* a slip: the empty change list is not short-circuited
HasChangesAlways(structured) == TRUE

HasChanges(structured) == Len(structured.changes) > 0

PlaceholderScore == 150

Placeholder ==
    [file_path |-> <<"DOCUMENTATION", ".md">>,
     content |-> <<"#", SP, "Documentation", NL, NL, "No", SP, "code", SP, "changes", SP,
                   "detected", SP, "to", SP, "document.">>,
     code_snippets |-> <<>>,
     evaluation_score |-> PlaceholderScore,
     ready_to_commit |-> FALSE]

\* _execute_code_snippets, the formatting of the results
FormatResults(snippets, map) ==
    [i \in 1..Len(snippets) |->
        LET result == Get(map, snippets[i].id)
        IN  [id |-> snippets[i].id,
             code |-> snippets[i].code,
             language |-> snippets[i].language,
             execution_result |->
                 IF result # <<>>
                 THEN [none |-> FALSE, success |-> result[1].success,
                       exit_code |-> result[1].exit_code, output |-> result[1].output,
                       error |-> result[1].error]
                 ELSE [none |-> TRUE, success |-> FALSE, exit_code |-> -1,
                       output |-> <<>>, error |-> NoneStr]]]

BelowThreshold(ev) == ev.overall_score < min_doc_quality_score

ReadyToCommit(ev) == ev.overall_score >= min_doc_quality_score

\* a slip: the attempt bound is off by one
LoopConditionOffByOne ==
    attempts <= max_self_correction_attempts /\ BelowThreshold(evaluation)

LoopCondition == attempts < max_self_correction_attempts /\ BelowThreshold(evaluation)

DocumentationUpdate ==
    [file_path |-> DetermineDocPath(structured_changes),
     content |-> documentation,
     code_snippets |-> execution_results,
     evaluation_score |-> evaluation.overall_score,
     ready_to_commit |-> ReadyToCommit(evaluation)]

Count(field) == [calls EXCEPT ![field] = @ + 1]

\* process_code_changes is entered: validation, structuring, the empty-list return
Call(d) ==
    /\ pc = "idle"
    /\ diff_content' = d
    /\ IF IsBlank(d)
       THEN /\ pc' = "raised"
            /\ UNCHANGED <<structured_changes, ret, calls>>
       ELSE LET structured == StructureCodeChanges(d)
            IN  /\ structured_changes' = structured
                /\ calls' = Count("structure")
                /\ IF HasChanges(structured)
                   THEN pc' = "draft" /\ ret' = ret
                   ELSE pc' = "returned" /\ ret' = Placeholder
    /\ UNCHANGED <<outer_vars, sandbox_vars, documentation, code_snippets,
                   results, k, execution_results, evaluation, attempts, first_score,
                   last_eval, broke>>

\* _draft_documentation: the generation service answers
DraftGenerated(text) ==
    /\ pc = "draft"
    /\ gemini_client
    /\ documentation' = text
    /\ calls' = Count("generate")
    /\ pc' = "extract"
    /\ UNCHANGED <<outer_vars, owner_vars, sandbox_vars, diff_content, structured_changes,
                   code_snippets, results, k, execution_results, evaluation, attempts, ret,
                   first_score, last_eval, broke>>

\* a slip: no try/except around the draft call, the exception leaves the pipeline
DraftFailedPropagates ==
    /\ pc = "draft"
    /\ gemini_client
    /\ calls' = [calls EXCEPT !.generate = @ + 1, !.failed = @ + 1]
    /\ pc' = "raised"
    /\ UNCHANGED <<outer_vars, owner_vars, sandbox_vars, run_vars, first_score, last_eval,
                   broke>>

\* _draft_documentation: the generation call raises
DraftFailed ==
    /\ pc = "draft"
    /\ gemini_client
    /\ documentation' = FallbackDocumentation(structured_changes)
    /\ calls' = [calls EXCEPT !.generate = @ + 1, !.failed = @ + 1]
    /\ pc' = "extract"
    /\ UNCHANGED <<outer_vars, owner_vars, sandbox_vars, diff_content, structured_changes,
                   code_snippets, results, k, execution_results, evaluation, attempts, ret,
                   first_score, last_eval, broke>>

\* _draft_documentation: no generation client
DraftNoClient ==
    /\ pc = "draft"
    /\ ~gemini_client
    /\ documentation' = FallbackDocumentation(structured_changes)
    /\ pc' = "extract"
    /\ UNCHANGED <<outer_vars, owner_vars, sandbox_vars, diff_content, structured_changes,
                   code_snippets, results, k, execution_results, evaluation, attempts, ret,
                   history_vars>>

\* a slip: the evaluation is asked for before the snippets are executed
ExtractThenEvaluate ==
    /\ pc = "extract"
    /\ code_snippets' = ExtractCodeSnippets(documentation, structured_changes)
    /\ results' = <<>>
    /\ k' = 1
    /\ pc' = "evaluate"
    /\ UNCHANGED <<outer_vars, owner_vars, sandbox_vars, diff_content, structured_changes,
                   documentation, execution_results, evaluation, attempts, ret, history_vars>>

\* _extract_code_snippets(documentation, structured_changes)
Extract ==
    /\ pc = "extract"
    /\ code_snippets' = ExtractCodeSnippets(documentation, structured_changes)
    /\ results' = <<>>
    /\ k' = 1
    /\ pc' = "execute"
    /\ UNCHANGED <<outer_vars, owner_vars, sandbox_vars, diff_content, structured_changes,
                   documentation, execution_results, evaluation, attempts, ret, history_vars>>

\* execute_code finds a sandbox, or create_sandbox makes one
CanRun == sandbox # 0 \/ (daytona /\ created < MaxSandboxes)

\* a slip: a sandbox is created for every execution
AcquireAlways ==
    /\ sandbox' = created + 1
    /\ created' = created + 1
    /\ calls' = [calls EXCEPT !.create = @ + 1, !.execute = @ + 1]

Acquire ==
    IF sandbox # 0
    THEN UNCHANGED <<sandbox, created>> /\ calls' = Count("execute")
    ELSE /\ sandbox' = created + 1
         /\ created' = created + 1
         /\ calls' = [calls EXCEPT !.create = @ + 1, !.execute = @ + 1]

Record(result) ==
    /\ results' = Put(results, code_snippets[k].id, result)
    /\ k' = k + 1
    /\ UNCHANGED <<outer_vars, owner_vars, pc, diff_content, structured_changes,
                   documentation, code_snippets, execution_results, evaluation, attempts,
                   ret, first_score, last_eval, broke>>

\* execute_code: no sandbox and none can be created: no client, or create raises
\* and create_sandbox prints the error
ExecuteNoSandbox ==
    /\ pc = "execute" /\ k <= Len(code_snippets)
    /\ sandbox = 0
    /\ calls' = IF daytona
                THEN [calls EXCEPT !.create = @ + 1, !.stdout = @ + 1]
                ELSE calls
    /\ UNCHANGED <<sandbox, created>>
    /\ Record(CreateFailedResult)

\* execute_code: the sandbox runs the snippet and answers
ExecuteAnswered(response) ==
    /\ pc = "execute" /\ k <= Len(code_snippets)
    /\ CanRun
    /\ Acquire
    /\ Record(ResponseResult(response))

\* a slip: no try/except around the run, the exception leaves the pipeline
ExecuteRaisedPropagates ==
    /\ pc = "execute" /\ k <= Len(code_snippets)
    /\ CanRun
    /\ Acquire
    /\ pc' = "raised"
    /\ UNCHANGED <<outer_vars, owner_vars, run_vars, first_score, last_eval, broke>>

\* execute_code: the run raises
ExecuteRaised ==
    /\ pc = "execute" /\ k <= Len(code_snippets)
    /\ CanRun
    /\ Acquire
    /\ Record(RaisedResult)

\* _execute_code_snippets: the batch is over, the results are formatted
Format ==
    /\ pc = "execute" /\ k > Len(code_snippets)
    /\ execution_results' = FormatResults(code_snippets, results)
    /\ pc' = "evaluate"
    /\ UNCHANGED <<outer_vars, owner_vars, sandbox_vars, diff_content, structured_changes,
                   documentation, code_snippets, results, k, evaluation, attempts, ret,
                   history_vars>>

\* galileo.evaluate_documentation(documentation, code_snippets=execution_results)
Evaluated(ev) ==
    /\ evaluation' = ev
    /\ calls' = Count("evaluate")
    /\ first_score' = IF calls.evaluate = 0 THEN ev.overall_score ELSE first_score
    /\ last_eval' = [documentation |-> documentation, code_snippets |-> execution_results]

\* the first evaluation and the test that enters _self_correct
Evaluate ==
    /\ pc = "evaluate"
    /\ \E ev \in {EvaluateDocumentation(documentation, execution_results)} :
           /\ Evaluated(ev)
           /\ pc' = IF BelowThreshold(ev) THEN "loop" ELSE "return"
    /\ attempts' = 0
    /\ UNCHANGED <<outer_vars, owner_vars, sandbox_vars, diff_content, structured_changes,
                   documentation, code_snippets, results, k, execution_results, ret, broke>>

\* _self_correct: the while test holds
LoopEnter ==
    /\ pc = "loop"
    /\ LoopCondition
    /\ attempts' = attempts + 1
    /\ pc' = "revise"
    /\ UNCHANGED <<outer_vars, owner_vars, sandbox_vars, diff_content, structured_changes,
                   documentation, code_snippets, results, k, execution_results, evaluation,
                   ret, history_vars>>

\* a slip: the loop may be left while its test still holds
LoopExitAnyTime ==
    /\ pc = "loop"
    /\ pc' = "return"
    /\ UNCHANGED <<outer_vars, owner_vars, sandbox_vars, run_vars, history_vars>>

\* _self_correct: the while test fails
LoopExit ==
    /\ pc = "loop"
    /\ ~LoopCondition
    /\ pc' = "return"
    /\ UNCHANGED <<outer_vars, owner_vars, sandbox_vars, run_vars, history_vars>>

\* _self_correct: the generation service answers the correction prompt
ReviseGenerated(text) ==
    /\ pc = "revise"
    /\ gemini_client
    /\ documentation' = text
    /\ calls' = Count("revise")
    /\ pc' = "reevaluate"
    /\ UNCHANGED <<outer_vars, owner_vars, sandbox_vars, diff_content, structured_changes,
                   code_snippets, results, k, execution_results, evaluation, attempts, ret,
                   first_score, last_eval, broke>>

\* a slip: the except clause has no break, the loop goes on to re-evaluate
ReviseFailedNoBreak ==
    /\ pc = "revise"
    /\ gemini_client
    /\ calls' = [calls EXCEPT !.revise = @ + 1, !.failed = @ + 1]
    /\ broke' = TRUE
    /\ pc' = "reevaluate"
    /\ UNCHANGED <<outer_vars, owner_vars, sandbox_vars, run_vars, first_score, last_eval>>

\* _self_correct: the correction call raises, break
ReviseFailed ==
    /\ pc = "revise"
    /\ gemini_client
    /\ calls' = [calls EXCEPT !.revise = @ + 1, !.failed = @ + 1]
    /\ broke' = TRUE
    /\ pc' = "return"
    /\ UNCHANGED <<outer_vars, owner_vars, sandbox_vars, run_vars, first_score, last_eval>>

\* a slip: with no generation client the loop is left
ReviseNoClientBreaks ==
    /\ pc = "revise"
    /\ ~gemini_client
    /\ pc' = "return"
    /\ UNCHANGED <<outer_vars, owner_vars, sandbox_vars, run_vars, history_vars>>

\* _self_correct: no generation client, the text stays
ReviseNoClient ==
    /\ pc = "revise"
    /\ ~gemini_client
    /\ pc' = "reevaluate"
    /\ UNCHANGED <<outer_vars, owner_vars, sandbox_vars, run_vars, history_vars>>

\* _self_correct: re-evaluate
ReEvaluate ==
    /\ pc = "reevaluate"
    /\ \E ev \in {EvaluateDocumentation(documentation, execution_results)} : Evaluated(ev)
    /\ pc' = "loop"
    /\ UNCHANGED <<outer_vars, owner_vars, sandbox_vars, diff_content, structured_changes,
                   documentation, code_snippets, results, k, execution_results, attempts,
                   ret, broke>>

Return ==
    /\ pc = "return"
    /\ ret' = DocumentationUpdate
    /\ pc' = "returned"
    /\ UNCHANGED <<outer_vars, owner_vars, sandbox_vars, diff_content, structured_changes,
                   documentation, code_snippets, results, k, execution_results, evaluation,
                   attempts, history_vars>>

\* the caller has the result (or the ValueError); the frame is gone
Finish ==
    /\ pc \in {"returned", "raised"}
    /\ pc' = "idle"
    /\ diff_content' = <<>>
    /\ structured_changes' = NoChanges
    /\ documentation' = <<>>
    /\ code_snippets' = <<>>
    /\ results' = <<>>
    /\ k' = 1
    /\ execution_results' = <<>>
    /\ evaluation' = NoEvaluation
    /\ attempts' = 0
    /\ ret' = NoUpdate
    /\ calls' = NoCalls
    /\ first_score' = -1
    /\ last_eval' = NoEval
    /\ broke' = FALSE
    /\ UNCHANGED <<outer_vars, sandbox_vars>>

\* ------------------------------------------------- DaytonaServer.cleanup
\* one call of cleanup, between two runs
Cleaned(what) ==
    /\ pc = "idle"
    /\ cleanups < MaxCleanups
    /\ cleanups' = cleanups + 1
    /\ last_cleanup' = [did |-> what, at |-> created]
    /\ UNCHANGED <<config_vars, parsed, created, pc, run_vars, history_vars>>

\* cleanup: no sandbox is held, nothing is done
CleanupNoSandbox ==
    /\ sandbox = 0
    /\ Cleaned("nothing")
    /\ UNCHANGED <<sandbox, issued, deleted>>

\* a slip: the handle is not dropped after the delete
CleanupDeletedKeepsHandle ==
    /\ sandbox # 0
    /\ Cleaned("deleted")
    /\ issued' = issued \cup {sandbox}
    /\ deleted' = deleted \cup {sandbox}
    /\ UNCHANGED sandbox

\* cleanup: delete succeeds, the handle is dropped
CleanupDeleted ==
    /\ sandbox # 0
    /\ Cleaned("deleted")
    /\ issued' = issued \cup {sandbox}
    /\ deleted' = deleted \cup {sandbox}
    /\ sandbox' = 0

\* cleanup: delete raises, the message is printed, the handle stays
CleanupDeleteRaised ==
    /\ sandbox # 0
    /\ Cleaned("failed")
    /\ issued' = issued \cup {sandbox}
    /\ UNCHANGED <<sandbox, deleted>>

Cleanup == CleanupNoSandbox \/ CleanupDeleted \/ CleanupDeleteRaised

\* ------------------------------------------------------------ the callers
\* a program that uses the orchestrator as a library calls process_code_changes
LibraryCall(d) ==
    /\ owner = "library" /\ owner_pc = "up"
    /\ Call(d)
    /\ UNCHANGED owner_vars

\* the result (or the ValueError) is back in the library caller
Returned ==
    /\ owner = "library"
    /\ Finish
    /\ UNCHANGED owner_vars

Next ==
    \/ \E d \in PipelineDiffs : LibraryCall(d)
    \/ \E text \in GeminiDocs : DraftGenerated(text)
    \/ DraftFailed
    \/ DraftNoClient
    \/ Extract
    \/ ExecuteNoSandbox
    \/ \E response \in Responses : ExecuteAnswered(response)
    \/ ExecuteRaised
    \/ Format
    \/ Evaluate
    \/ LoopEnter
    \/ LoopExit
    \/ \E text \in GeminiDocs : ReviseGenerated(text)
    \/ ReviseFailed
    \/ ReviseNoClient
    \/ ReEvaluate
    \/ Return
    \/ Returned

Spec == Init /\ [][Next]_vars

\* the steps of a run that is under way
RunStep ==
    \/ \E text \in GeminiDocs : DraftGenerated(text)
    \/ DraftFailed
    \/ DraftNoClient
    \/ Extract
    \/ ExecuteNoSandbox
    \/ \E response \in Responses : ExecuteAnswered(response)
    \/ ExecuteRaised
    \/ Format
    \/ Evaluate
    \/ LoopEnter
    \/ LoopExit
    \/ \E text \in GeminiDocs : ReviseGenerated(text)
    \/ ReviseFailed
    \/ ReviseNoClient
    \/ ReEvaluate
    \/ Return

\* ------------------------------------------- _parse_diff on generated diffs
\* a section header of a rename or of a binary file: no '+++' line follows it
HdrR == <<DIFF_GIT, SP, "a", "/", "old", ".md", SP, "b", "/", "new", ".md">>
RenameFrom == <<"rename", SP, "from", SP, "old", ".md">>
NewFileG == <<"-", "-", "-", SP, "/", "dev", "/", "null">>

PathF == <<"src", "/", "f", ".py">>
PathG == <<"g", ".js">>
PathR == <<"new", ".md">>

\* the sections git writes, each with the file it is about and the lines it adds and removes
Section(lines, file_path, added, removed) ==
    [lines |-> lines, file_path |-> file_path, added |-> added, removed |-> removed]

AddedSection == Section(<<HdrF, OldF, NewF, AddX>>, PathF, <<Tail(AddX)>>, <<>>)
ModifiedSection ==
    Section(<<HdrF, OldF, NewF, Context, DelZ, AddX>>, PathF, <<Tail(AddX)>>, <<Tail(DelZ)>>)
NewFileSection == Section(<<HdrG, NewFileG, NewG, AddY>>, PathG, <<Tail(AddY)>>, <<>>)
DeletedFileSection == Section(<<HdrF, OldF, NewNull, DelZ>>, PathF, <<>>, <<Tail(DelZ)>>)
RenameSection == Section(<<HdrR, RenameFrom>>, PathR, <<>>, <<>>)
ModeSection == Section(<<HdrF, OldF, NewF>>, PathF, <<>>, <<>>)

Sections ==
    {AddedSection, ModifiedSection, NewFileSection, DeletedFileSection, RenameSection,
     ModeSection}

SectionLists == UNION {[1..n -> Sections] : n \in 1..MaxSections}

RECURSIVE SectionLines(_)
SectionLines(secs) ==
    IF Len(secs) = 0 THEN <<>> ELSE Head(secs).lines \o SectionLines(Tail(secs))

DiffOf(secs) == Text(SectionLines(secs))

GeneratedDiffs == {DiffOf(secs) : secs \in SectionLists}

\* one section of a added and r removed lines
MaxSideLines == 26

LineCountDiff(a, r) ==
    Text(<<HdrF, OldF, NewF>> \o [i \in 1..a |-> AddX] \o [i \in 1..r |-> DelZ])

LineCountDiffs == {LineCountDiff(a, r) : a, r \in 0..MaxSideLines}

\* an added line whose content starts with '++' (the pre-increment '++i;')
AddInc == <<"+", "+", "+", "i", ";">>

IncrementDiff == Text(<<HdrF, OldF, NewF, AddInc>>)

DefaultMinScore == 210
DefaultMaxAttempts == 3

ParseInitState ==
    /\ gemini_client = FALSE
    /\ daytona = FALSE
    /\ min_doc_quality_score = DefaultMinScore
    /\ max_self_correction_attempts = DefaultMaxAttempts
    /\ orchestrator = TRUE
    /\ git_handler = TRUE
    /\ sandbox = 0
    /\ created = 0
    /\ pc = "parse"
    /\ parsed = <<>>
    /\ diff_content \in GeneratedDiffs \cup LineCountDiffs \cup {IncrementDiff}
    /\ structured_changes = NoChanges
    /\ documentation = <<>>
    /\ code_snippets = <<>>
    /\ results = <<>>
    /\ k = 1
    /\ execution_results = <<>>
    /\ evaluation = NoEvaluation
    /\ attempts = 0
    /\ ret = NoUpdate
    /\ calls = NoCalls
    /\ first_score = -1
    /\ last_eval = NoEval
    /\ broke = FALSE
    /\ Untouched
    /\ owner = "library"
    /\ owner_pc = "up"

\* structure_code_changes(diff_content), its call of _parse_diff kept
Parse ==
    /\ pc = "parse"
    /\ parsed' = ParseDiff(diff_content)
    /\ structured_changes' = StructureCodeChanges(diff_content)
    /\ pc' = "parsed"
    /\ UNCHANGED <<config_vars, teardown_vars, owner_vars, sandbox_vars, diff_content,
                   documentation, code_snippets, results, k, execution_results, evaluation,
                   attempts, ret, history_vars>>

ParseSpec == ParseInitState /\ [][Parse]_vars

\* ------------------------------------------- the programs and their exits
\* mcp_server.py and src/api.py build one orchestrator when the module is loaded;
\* example_usage.py does not compile (the triple-quoted example_diff ends at the
\* docstring quoted inside it), so it never builds one
Programs == {"library", "mcp", "api"}

LifecycleDiffs == {BlankDiff, HeaderOnlyDiff, OneFileDiff}

\* a library program calls orchestrator.cleanup()
LibraryCleanup ==
    /\ owner = "library" /\ owner_pc = "up"
    /\ Cleanup
    /\ UNCHANGED owner_vars

\* what GitHandler.get_uncommitted_changes and get_diff may return
GitDiffs == {EmptyDiff, BlankDiff, OneFileDiff}
ToolDiffs == {EmptyDiff, BlankDiff, HeaderOnlyDiff, OneFileDiff}

Fetch(from, text) == [from |-> from, blank |-> IsBlank(text)]

\* call_tool: the fetches a blank diff_content leads to
Fetched(given, uncommitted, branch) ==
    IF ~IsBlank(given) THEN <<>>
    ELSE IF IsBlank(uncommitted)
    THEN <<Fetch("uncommitted", uncommitted), Fetch("branch", branch)>>
    ELSE <<Fetch("uncommitted", uncommitted)>>

\* call_tool: the diff after the fetches
ToolDiff(given, uncommitted, branch) ==
    IF ~IsBlank(given) THEN given
    ELSE IF IsBlank(uncommitted) THEN branch
    ELSE uncommitted

Given(given) == IF IsBlank(given) THEN "blank" ELSE "text"

\* a slip: the diff is not tested again after the fetches
McpCallToolUntested(given, uncommitted, branch) ==
    /\ owner = "mcp" /\ owner_pc = "up"
    /\ orchestrator
    /\ IsBlank(given) => git_handler
    /\ Call(ToolDiff(given, uncommitted, branch))
    /\ tool' = [given |-> Given(given), fetched |-> Fetched(given, uncommitted, branch),
                reply |-> "pending"]
    /\ UNCHANGED <<owner, owner_pc, handlers>>

\* mcp_server.call_tool, tool process_code_changes: a diff that is not blank was
\* given or fetched, the orchestrator is called with it
McpCallTool(given, uncommitted, branch) ==
    /\ owner = "mcp" /\ owner_pc = "up"
    /\ orchestrator
    /\ IsBlank(given) => git_handler
    /\ ~IsBlank(ToolDiff(given, uncommitted, branch))
    /\ Call(ToolDiff(given, uncommitted, branch))
    /\ tool' = [given |-> Given(given), fetched |-> Fetched(given, uncommitted, branch),
                reply |-> "pending"]
    /\ UNCHANGED <<owner, owner_pc, handlers>>

\* mcp_server.call_tool, tool process_code_changes: answered without the
\* orchestrator (no orchestrator, no git handler for a blank diff, or no diff
\* that is not blank)
McpToolRefused(given, uncommitted, branch) ==
    /\ owner = "mcp" /\ owner_pc = "up"
    /\ pc = "idle"
    /\ tool' =
          IF ~orchestrator
          THEN [given |-> Given(given), fetched |-> <<>>, reply |-> "no orchestrator"]
          ELSE IF IsBlank(given) /\ ~git_handler
          THEN [given |-> Given(given), fetched |-> <<>>, reply |-> "no git handler"]
          ELSE [given |-> Given(given), fetched |-> Fetched(given, uncommitted, branch),
                reply |-> "no changes"]
    /\ orchestrator /\ (IsBlank(given) => git_handler)
          => IsBlank(ToolDiff(given, uncommitted, branch))
    /\ UNCHANGED <<config_vars, sandbox_vars, pc, parsed, run_vars, history_vars,
                   teardown_vars, owner, owner_pc, handlers>>

\* mcp_server.call_tool: the update is back and is answered as JSON, or the
\* exception is caught and answered as an error text
McpToolOver ==
    /\ owner = "mcp"
    /\ Finish
    /\ tool' = [tool EXCEPT !.reply = IF pc = "returned" THEN "result" ELSE "error"]
    /\ UNCHANGED <<owner, owner_pc, handlers>>

\* mcp_server.main ends (the streams close, an interrupt, a fatal error): no
\* cleanup call
McpShutdown ==
    /\ owner = "mcp" /\ owner_pc = "up"
    /\ pc = "idle"
    /\ owner_pc' = "exiting"
    /\ UNCHANGED <<config_vars, sandbox_vars, pc, parsed, run_vars, history_vars,
                   teardown_vars, owner, handlers, tool>>

InProgress(r) == handlers[r].at \in {"pipeline", "broadcast"}

\* api.process_changes: the coroutine of request r starts and calls the pipeline,
\* which blocks the event loop until it returns
ApiProcessChanges(r, d) ==
    /\ owner = "api" /\ owner_pc = "up"
    /\ handlers[r].at = "new"
    /\ \A q \in 1..(r - 1) : handlers[q].at # "new"
    /\ Call(d)
    /\ handlers' = [handlers EXCEPT ![r].at = "pipeline", ![r].blank = IsBlank(d)]
    /\ UNCHANGED <<owner, owner_pc, tool>>

\* the sandbox the run under way has executed snippets in
UsedHandles == IF calls.execute > 0 THEN {sandbox} ELSE {}

\* api.process_changes: the pipeline is back; the coroutine awaits the broadcast,
\* or answers 500 when the pipeline raised
ApiPipelineOver(r) ==
    /\ owner = "api"
    /\ handlers[r].at = "pipeline"
    /\ Finish
    /\ handlers' = [handlers EXCEPT ![r] =
                        [at |-> IF pc = "returned" THEN "broadcast" ELSE "done",
                         handles |-> UsedHandles,
                         blank |-> handlers[r].blank,
                         broadcast |-> pc = "returned",
                         status |-> IF pc = "returned" THEN 0 ELSE ServerError]]
    /\ UNCHANGED <<owner, owner_pc, tool>>

\* api.process_changes: the broadcast is over, the response is returned
ApiResponded(r) ==
    /\ owner = "api"
    /\ pc = "idle"
    /\ handlers[r].at = "broadcast"
    /\ handlers' = [handlers EXCEPT ![r].at = "done", ![r].status = Ok]
    /\ UNCHANGED <<config_vars, sandbox_vars, pc, parsed, run_vars, history_vars,
                   teardown_vars, owner, owner_pc, tool>>

\* api.shutdown: the shutdown event calls orchestrator.cleanup()
ApiShutdown ==
    /\ owner = "api" /\ owner_pc = "up"
    /\ \A r \in 1..MaxRequests : ~InProgress(r)
    /\ Cleanup
    /\ owner_pc' = "exiting"
    /\ UNCHANGED <<owner, handlers, tool>>

\* DaytonaServer.__del__ when the interpreter exits: Python does not promise to
\* call it for objects still alive then
FinalizerRuns ==
    /\ owner_pc = "exiting"
    /\ Cleanup
    /\ owner_pc' = "exited"
    /\ UNCHANGED <<owner, handlers, tool>>

FinalizerSkipped ==
    /\ owner_pc = "exiting"
    /\ owner_pc' = "exited"
    /\ UNCHANGED <<config_vars, sandbox_vars, pc, parsed, run_vars, history_vars,
                   teardown_vars, owner, handlers, tool>>

\* no generation client, the default number of attempts, any of the programs
LifecycleInit ==
    /\ gemini_client = FALSE
    /\ daytona \in BOOLEAN
    /\ min_doc_quality_score \in MinScores
    /\ max_self_correction_attempts = DefaultMaxAttempts
    /\ owner \in Programs
    /\ orchestrator \in BOOLEAN
    /\ git_handler \in BOOLEAN
    /\ owner # "mcp" => orchestrator /\ git_handler
    /\ git_handler => orchestrator
    /\ Constructed

LifecycleNext ==
    \/ \E d \in LifecycleDiffs : LibraryCall(d)
    \/ LibraryCleanup
    \/ \E given \in ToolDiffs, uncommitted, branch \in GitDiffs :
           McpCallTool(given, uncommitted, branch)
    \/ \E given \in ToolDiffs, uncommitted, branch \in GitDiffs :
           McpToolRefused(given, uncommitted, branch)
    \/ McpToolOver
    \/ McpShutdown
    \/ \E r \in 1..MaxRequests, d \in LifecycleDiffs : ApiProcessChanges(r, d)
    \/ \E r \in 1..MaxRequests : ApiPipelineOver(r)
    \/ \E r \in 1..MaxRequests : ApiResponded(r)
    \/ ApiShutdown
    \/ FinalizerRuns
    \/ FinalizerSkipped
    \/ Returned
    \/ DraftNoClient
    \/ Extract
    \/ ExecuteNoSandbox
    \/ \E response \in Responses : ExecuteAnswered(response)
    \/ ExecuteRaised
    \/ Format
    \/ Evaluate
    \/ LoopEnter
    \/ LoopExit
    \/ ReviseNoClient
    \/ ReEvaluate
    \/ Return

LifecycleSpec == LifecycleInit /\ [][LifecycleNext]_vars

\* ================================================================== claims
\* the (id, code, language) of each entry of a snippet list
Triples(snippets) ==
    [i \in 1..Len(snippets) |->
        <<snippets[i].id, snippets[i].code, snippets[i].language>>]

InRun == pc \notin {"idle", "parse", "parsed"}

\* C1: one call of process_code_changes makes at most max_self_correction_attempts
\* revision requests, makes none when the first overall_score is at or above
\* min_doc_quality_score, and the loop ends: it is entered at most
\* max_self_correction_attempts times, each turn making one evaluation.
C1_BoundedSelfCorrection ==
    /\ calls.revise <= Max(0, max_self_correction_attempts)
    /\ calls.revise <= attempts
    /\ attempts <= Max(0, max_self_correction_attempts)
    /\ calls.evaluate <= 1 + attempts
    /\ pc = "loop" => calls.evaluate = 1 + attempts
    /\ pc \in {"revise", "reevaluate"} => calls.evaluate = attempts
    /\ (calls.evaluate >= 1 /\ first_score >= min_doc_quality_score)
           => /\ calls.revise = 0
              /\ attempts = 0
              /\ pc \in {"return", "returned"}

\* the loop ran out of attempts with the score still low
C1_Witness ==
    /\ pc = "returned"
    /\ max_self_correction_attempts >= 2
    /\ calls.revise = max_self_correction_attempts
    /\ calls.evaluate = 1 + max_self_correction_attempts
    /\ ~ret.ready_to_commit

\* C2: every DocumentationUpdate returned has ready_to_commit true exactly when
\* its evaluation_score is at or above min_doc_quality_score, the placeholder of
\* an empty change list included, for every threshold in [0, 1].
C2_ReadyIffScoreMeetsThreshold ==
    pc = "returned"
        => (ret.ready_to_commit <=> ret.evaluation_score >= min_doc_quality_score)

\* C3: every evaluation call of a run receives the execution results of the
\* snippets of exactly the documentation text it evaluates, so after a revision
\* the snippets are extracted and executed again before the re-evaluation.
C3_EvaluationSeesCurrentSnippets ==
    calls.evaluate > 0
        => Triples(last_eval.code_snippets)
           = Triples(ExtractCodeSnippets(last_eval.documentation, structured_changes))

\* C4: the code_snippets of the returned DocumentationUpdate are the
\* snippet/execution pairs produced from the returned content.
C4_ReturnedSnippetsAreOfReturnedContent ==
    pc = "returned"
        => Triples(ret.code_snippets)
           = Triples(ExtractCodeSnippets(ret.content, structured_changes))

\* C5: an empty change list returns the fixed placeholder (score 0.5, not ready,
\* no snippets) and no draft, sandbox, execution or evaluation call is made.
C5_EmptyChangeListShortCircuits ==
    (InRun /\ pc # "raised" /\ Len(structured_changes.changes) = 0)
        => /\ pc = "returned"
           /\ ret.evaluation_score = 150
           /\ ~ret.ready_to_commit
           /\ ret.code_snippets = <<>>
           /\ ret.file_path = <<"DOCUMENTATION", ".md">>
           /\ calls = [NoCalls EXCEPT !.structure = 1]

\* a diff with no file section has been answered while a sandbox is live
C5_Witness ==
    /\ pc = "returned"
    /\ diff_content = ProseDiff
    /\ ret.evaluation_score = 150
    /\ sandbox # 0

\* C6: an empty or whitespace-only diff raises the input error before any
\* collaborator is called and leaves the orchestrator and the sandbox as they were.
C6_BlankDiffRaisesFirst ==
    /\ (InRun /\ diff_content \in {EmptyDiff, BlankDiff})
           => /\ pc = "raised"
              /\ calls = NoCalls
              /\ structured_changes = NoChanges
              /\ documentation = <<>>
              /\ ret = NoUpdate
    /\ pc = "raised" => calls.create = 0 /\ calls.execute = 0
    /\ sandbox <= created /\ (pc = "raised" /\ created > 0 => calls.create = 0)

\* the whitespace-only diff has raised, the sandbox of an earlier run still held
C6_Witness ==
    /\ pc = "raised"
    /\ diff_content = BlankDiff
    /\ sandbox # 0

\* C7: for a diff that is not blank the call returns a DocumentationUpdate and
\* raises nothing, whatever generation, sandbox-creation and execution failures
\* occur: only a blank diff raises, and a run under way can always take its next
\* step until it has returned.
C7_NonBlankDiffAlwaysReturns ==
    /\ pc = "raised" => diff_content \in {EmptyDiff, BlankDiff}
    /\ (InRun /\ pc \notin {"returned", "raised"}) => ENABLED RunStep
    /\ pc = "returned" => ret.file_path # <<>> /\ ret.content # <<>>

CreateFailedError == Some(<<"Failed", SP, "to", SP, "create", SP, "sandbox">>)

\* a run has returned after a failed draft call, a failed sandbox creation, a
\* raised execution and a failed revision call
C7_Witness ==
    /\ pc = "returned"
    /\ gemini_client
    /\ broke
    /\ calls.failed = 2
    /\ \E i \in 1..Len(ret.code_snippets) :
           ret.code_snippets[i].execution_result.error = CreateFailedError
    /\ \E i \in 1..Len(ret.code_snippets) :
           ret.code_snippets[i].execution_result.error = Some(<<"exception">>)

\* C8: a failed revision request ends the loop at once with no further
\* evaluation, and the returned content and score are those held before it; the
\* returned score is the evaluation of the returned content.
C8_FailedRevisionKeepsLastPair ==
    /\ broke
           => /\ pc \in {"return", "returned"}
              /\ calls.evaluate = attempts
              /\ documentation = last_eval.documentation
              /\ evaluation
                 = EvaluateDocumentation(last_eval.documentation, last_eval.code_snippets)
    /\ pc = "returned" /\ calls.evaluate > 0
           => /\ ret.content = last_eval.documentation
              /\ ret.evaluation_score = evaluation.overall_score
              /\ ret.evaluation_score
                 = EvaluateDocumentation(ret.content, last_eval.code_snippets).overall_score

\* the second revision request failed after the first had replaced the draft
C8_Witness ==
    /\ pc = "returned"
    /\ broke
    /\ attempts = 2
    /\ ret.content \in GeminiDocs
    /\ ret.content # LongDoc

\* text holds part as a run of tokens
Contains(text, part) ==
    \E i \in 1..(Len(text) - Len(part) + 1) : SubSeq(text, i, i + Len(part) - 1) = part

\* C9: drafting never propagates a failure: with no generation client, or when
\* the generation call raises, the draft is the template rendering of the
\* structured changes and the pipeline goes on to snippet extraction.
C9_DraftFallsBackToTemplate ==
    /\ (pc = "extract" /\ (~gemini_client \/ calls.failed > 0))
           => /\ documentation = FallbackDocumentation(structured_changes)
              /\ StartsWith(documentation, <<"#", SP, "Documentation", SP, "Update", NL>>)
              /\ \A i \in 1..Len(structured_changes.changes) :
                     Contains(documentation,
                              <<NL, "##", SP>> \o structured_changes.changes[i].file_path
                              \o <<NL>>)
    /\ pc = "raised" => calls.generate = 0 /\ calls.failed = 0
    /\ (InRun /\ calls.generate > 0)
           => pc \in {"extract", "execute", "evaluate", "loop", "revise", "reevaluate",
                      "return", "returned"}
    /\ pc = "draft" => ENABLED (DraftFailed \/ DraftNoClient)

\* the generation call raised on a two-file diff and extraction is next
C9_Witness ==
    /\ pc = "extract"
    /\ gemini_client
    /\ calls.failed = 1
    /\ Len(structured_changes.changes) = 2

\* C10: for a diff of N 'diff --git' sections _parse_diff yields N records, the
\* i-th holding the added and removed lines of the i-th section under that
\* section's own file path, in input order.
C10_OneRecordPerSection ==
    pc = "parsed"
        => \A secs \in SectionLists :
               diff_content = DiffOf(secs)
                   => /\ Len(parsed) = Len(secs)
                      /\ \A i \in 1..Len(secs) :
                             /\ parsed[i].file_path = secs[i].file_path
                             /\ parsed[i].lines_added = secs[i].added
                             /\ parsed[i].lines_removed = secs[i].removed

\* the same, for diffs every section of which has a '+++' line naming its file
C10_MarkedSectionsOnly ==
    pc = "parsed"
        => \A secs \in SectionLists :
               (/\ diff_content = DiffOf(secs)
                /\ \A i \in 1..Len(secs) :
                       secs[i] \in {AddedSection, ModifiedSection, NewFileSection, ModeSection})
                   => /\ Len(parsed) = Len(secs)
                      /\ \A i \in 1..Len(secs) :
                             /\ parsed[i].file_path = secs[i].file_path
                             /\ parsed[i].lines_added = secs[i].added
                             /\ parsed[i].lines_removed = secs[i].removed

\* C11: every snippet of one pipeline run has an id different from that of every
\* other snippet of the run, for any documentation text and any change list.
C11_SnippetIdsDistinct ==
    \A i, j \in 1..Len(code_snippets) :
        code_snippets[i].id = code_snippets[j].id => i = j

\* the ExecutionResult of a failed execution is well formed: success is false
\* exactly when exit_code is not 0, and exit_code is -1 when the sandbox could
\* not be created or the call raised
FailureRecorded(result) ==
    /\ result.success <=> result.exit_code = 0
    /\ result.error \in {CreateFailedResult.error, RaisedResult.error}
           => ~result.success /\ result.exit_code = -1 /\ result.output = <<>>

\* k - 1 snippets of the batch have been executed and each has its own result
BatchSoFar ==
    /\ Len(results) = (IF pc = "execute" THEN k - 1 ELSE Len(code_snippets))
    /\ \A i \in 1..Len(results) : FailureRecorded(results[i].result)
    /\ pc \in {"evaluate", "loop", "revise", "reevaluate", "return"}
           => /\ Len(execution_results) = Len(code_snippets)
              /\ \A i \in 1..Len(execution_results) :
                     ~execution_results[i].execution_result.none

\* C12: execute_code_snippets yields exactly one ExecutionResult for every
\* snippet of the batch; a snippet that raises, exits non-zero or finds no
\* sandbox is recorded as failed and the rest of the batch is still executed.
C12_OneResultPerSnippet ==
    pc \in {"execute", "evaluate", "loop", "revise", "reevaluate", "return"} => BatchSoFar

\* the same, for the batches whose snippet ids are pairwise distinct
C12_DistinctIdsBatch ==
    (/\ pc \in {"execute", "evaluate", "loop", "revise", "reevaluate", "return"}
     /\ C11_SnippetIdsDistinct)
        => BatchSoFar

\* the EvaluationResults of this state: the one the run holds
Evaluations == IF calls.evaluate > 0 THEN {evaluation} ELSE {}

\* C17: the overall_score of every EvaluationResult is the arithmetic mean of its
\* accuracy, tone and clarity scores (sub-scores in hundredths, the overall score
\* in 1/300, so the mean is their sum), and each score lies in [0, 1].
C17_OverallIsMean ==
    /\ \A ev \in Evaluations :
           /\ ev.overall_score = ev.accuracy_score + ev.tone_score + ev.clarity_score
           /\ \A sub \in {ev.accuracy_score, ev.tone_score, ev.clarity_score} :
                  0 <= sub /\ sub <= 100
    /\ (pc = "returned" /\ calls.evaluate > 0)
           => ret.evaluation_score
              = evaluation.accuracy_score + evaluation.tone_score + evaluation.clarity_score

\* an evaluation whose three sub-scores all differ
C17_Witness ==
    /\ calls.evaluate > 0
    /\ evaluation.accuracy_score # evaluation.tone_score
    /\ evaluation.tone_score # evaluation.clarity_score
    /\ evaluation.accuracy_score # evaluation.clarity_score

\* the sub-scores of ev that are below 0.7, by position
BelowFloor(ev) ==
    {i \in 1..3 : <<ev.accuracy_score, ev.tone_score, ev.clarity_score>>[i] < SubScoreFloor}

\* C18: issues and feedback have one entry each per sub-score below 0.7, in the
\* order accuracy, tone, clarity, so both are non-empty whenever a sub-score is
\* below 0.7 and they always have equal length.
C18_IssuesForLowSubScores ==
    \A ev \in Evaluations :
        /\ Len(ev.issues) = Cardinality(BelowFloor(ev))
        /\ Len(ev.feedback) = Len(ev.issues)
        /\ BelowFloor(ev) # {} => ev.issues # <<>> /\ ev.feedback # <<>>
        /\ \A i \in 1..Len(ev.issues) :
               \E j \in BelowFloor(ev) : ev.issues[i] = Issues[j] /\ ev.feedback[i] = Feedback[j]

\* accuracy and tone are both below 0.7
C18_Witness ==
    /\ calls.evaluate > 0
    /\ BelowFloor(evaluation) = {1, 2}
    /\ Len(evaluation.issues) = 2

\* the complexity the thresholds give a count of changed lines
ComplexityOf(total) ==
    IF total <= 9 THEN "low" ELSE IF total <= 49 THEN "medium" ELSE "high"

\* C19: the complexity of a change record depends on its total changed-line
\* count (added + removed) only: 0..9 low, 10..49 medium, 50 and above high; the
\* structured record carries the same value.
C19_ComplexityByThresholds ==
    pc = "parsed"
        => /\ \A i \in 1..Len(parsed) :
                  parsed[i].complexity
                  = ComplexityOf(Len(parsed[i].lines_added) + Len(parsed[i].lines_removed))
           /\ Len(structured_changes.changes) = Len(parsed)
           /\ \A i \in 1..Len(parsed) :
                  structured_changes.changes[i].complexity = parsed[i].complexity

\* a record of exactly 50 changed lines, none of its two lists reaching 50
C19_Witness ==
    /\ pc = "parsed"
    /\ Len(parsed) = 1
    /\ Len(parsed[1].lines_added) + Len(parsed[1].lines_removed) = 50
    /\ Len(parsed[1].lines_added) < 50 /\ Len(parsed[1].lines_removed) < 50
    /\ parsed[1].complexity = "high"

\* the summary the templates give lists of a added and r removed lines
SummaryOf(a, r) ==
    IF a = 0 /\ r = 0 THEN <<"No", SP, "changes", SP, "detected">>
    ELSE IF r = 0 THEN <<"Added", SP, ToString(a), SP, "lines">>
    ELSE IF a = 0 THEN <<"Removed", SP, ToString(r), SP, "lines">>
    ELSE <<"Modified:", SP, ToString(a), SP, "lines", SP, "added,", SP, ToString(r), SP,
           "lines", SP, "removed">>

\* every record's summary is the template chosen by which of its lists are empty
SummaryByEmptiness ==
    \A i \in 1..Len(parsed) :
        parsed[i].summary = SummaryOf(Len(parsed[i].lines_added), Len(parsed[i].lines_removed))

\* the diffs that are one file header and nothing else
HeaderOnlyDiffs == {DiffOf(<<ModeSection>>), DiffOf(<<RenameSection>>), LineCountDiff(0, 0)}

\* C20: the summary of a record is the template chosen by which of its added and
\* removed lists are empty, and a diff that is only a file header yields exactly
\* one record, with empty lists and the summary "No changes detected".
C20_SummaryTemplates ==
    pc = "parsed"
        => /\ SummaryByEmptiness
           /\ diff_content \in HeaderOnlyDiffs
                  => /\ Len(parsed) = 1
                     /\ parsed[1].lines_added = <<>> /\ parsed[1].lines_removed = <<>>
                     /\ parsed[1].summary = <<"No", SP, "changes", SP, "detected">>

\* the summaries alone, and the header-only diffs whose header has a '+++' line
C20_SummariesAndMarkedHeaders ==
    pc = "parsed"
        => /\ SummaryByEmptiness
           /\ diff_content \in {DiffOf(<<ModeSection>>), LineCountDiff(0, 0)}
                  => /\ Len(parsed) = 1
                     /\ parsed[1].lines_added = <<>> /\ parsed[1].lines_removed = <<>>
                     /\ parsed[1].summary = <<"No", SP, "changes", SP, "detected">>

\* C13: a sandbox an orchestrator created has been released when the program
\* that owns the orchestrator has exited, whichever way it ended (the MCP
\* server's main ending, the API's shutdown event): no sandbox is still held
\* then.
C13_ReleasedAtExit == owner_pc = "exited" => sandbox = 0

\* C13 (what the code does keep): after a cleanup call whose delete succeeded
\* and before another sandbox is created, no sandbox is held.
C13_ReleasedByCleanup ==
    last_cleanup.did = "deleted" /\ last_cleanup.at = created => sandbox = 0

\* C14: cleanup returns in every state it is called in (no sandbox ever
\* created, sandbox live, already released, delete having failed); with no
\* sandbox held it deletes nothing and changes nothing of the executor; and
\* the cleanup that follows a successful release, with no sandbox created in
\* between, issues no delete.
C14_CleanupIdempotent ==
    [][cleanups' = cleanups + 1 =>
          /\ last_cleanup'.did \in {"nothing", "deleted", "failed"}
          /\ pc' = pc
          /\ sandbox = 0 => last_cleanup'.did = "nothing" /\ UNCHANGED <<sandbox, issued>>
          /\ last_cleanup.did = "deleted" /\ last_cleanup.at = created
                => last_cleanup'.did = "nothing"]_vars

\* a cleanup has found nothing to delete after an earlier one released the
\* only sandbox created so far
C14_Witness ==
    /\ cleanups >= 2
    /\ last_cleanup = [did |-> "nothing", at |-> created]
    /\ created > 0 /\ created \in issued
    /\ sandbox = 0

\* C15: no snippet of a run is executed in a sandbox that cleanup has called
\* delete on, whether or not that delete succeeded.
C15_NoExecutionAfterDelete == calls.execute > 0 => sandbox \notin issued

\* C15 (what the code does keep): a run executes in a sandbox delete was
\* called on only when that delete raised, and after a delete that succeeded
\* the next execution is in a sandbox created after it.
C15_FreshAfterRelease ==
    /\ calls.execute > 0 /\ sandbox \in issued
          => last_cleanup = [did |-> "failed", at |-> sandbox]
    /\ calls.execute > 0 /\ last_cleanup.did = "deleted" => sandbox > last_cleanup.at

C16_OnePipelineAtATime ==
    /\ Cardinality({r \in 1..MaxRequests : handlers[r].at = "pipeline"}) <= 1
    /\ owner = "api" /\ pc # "idle" => \E r \in 1..MaxRequests : handlers[r].at = "pipeline"

\* the part of a path before its last '/', empty when it has none
DirectoryOf(path) ==
    LET slashes == {i \in 1..Len(path) : path[i] = "/"}
    IN  IF slashes = {} THEN <<>>
        ELSE SubSeq(path, 1, (CHOOSE i \in slashes : \A j \in slashes : j <= i) - 1)

HasDirectory(path) == \E i \in 1..Len(path) : path[i] = "/"

\* C21: for a diff with a non-empty change list the file_path returned is
\* "<dir>/DOCUMENTATION.md", <dir> the directory of the first change record's
\* file_path, or "DOCUMENTATION.md" when that path has no directory; no other
\* record and no evaluation outcome has a part in it.
C21_DocPathFromFirstRecord ==
    pc = "returned" /\ HasChanges(structured_changes) =>
        LET first_path == ParseDiff(diff_content)[1].file_path
        IN  ret.file_path =
                IF HasDirectory(first_path)
                THEN DirectoryOf(first_path) \o <<"/", "DOCUMENTATION", ".md">>
                ELSE <<"DOCUMENTATION", ".md">>

\* a run on src/f.py followed by g.js has returned below the threshold with
\* the path under src
C21_Witness ==
    /\ pc = "returned"
    /\ Len(structured_changes.changes) = 2
    /\ ~HasDirectory(structured_changes.changes[2].file_path)
    /\ ret.file_path = <<"src", "/", "DOCUMENTATION", ".md">>
    /\ ~ret.ready_to_commit

\* C22: while the MCP server handles a tool call, no error or diagnostic
\* message is written to standard output.
C22_NoDiagnosticOnStdout == owner = "mcp" => calls.stdout = 0

\* the orchestrator has been called by the latest tool call
ToolCalledOrchestrator == tool.reply \in {"pending", "result", "error"}

\* no fetch of the latest tool call returned a diff that is not blank
NothingFetched == \A i \in 1..Len(tool.fetched) : tool.fetched[i].blank

\* C23 (as stated): a process_code_changes tool call given a blank
\* diff_content fetches the uncommitted changes first and the branch diff only
\* if those are blank, calls the orchestrator only with a diff that is not
\* blank, and otherwise answers 'No code changes found'; the orchestrator's
\* input error is never raised through the tool.
C23_BlankDiffFetchedOrNoChanges ==
    owner = "mcp" /\ tool.given = "blank" =>
        /\ Len(tool.fetched) >= 1 /\ tool.fetched[1].from = "uncommitted"
        /\ Len(tool.fetched) = 2 => tool.fetched[1].blank /\ tool.fetched[2].from = "branch"
        /\ Len(tool.fetched) <= 2
        /\ ToolCalledOrchestrator => ~tool.fetched[Len(tool.fetched)].blank
        /\ ~ToolCalledOrchestrator => tool.reply = "no changes"
        /\ pc # "raised" /\ tool.reply # "error"

\* C23 (amended): a process_code_changes tool call given a blank diff_content
\* answers 'Orchestrator not initialized' when no orchestrator was built and
\* 'Git handler not initialized' when no git handler was, both without a
\* fetch; otherwise it fetches the uncommitted changes first and the branch
\* diff only if those are blank, calls the orchestrator only with a fetched
\* diff that is not blank, and answers 'No code changes found' when there is
\* none.  Whatever diff_content is given, the orchestrator is never called
\* with a blank diff, so its input error is never raised through the tool.
C23_BlankDiffFetchedUnlessNoHandler ==
    owner = "mcp" =>
        /\ pc # "raised" /\ tool.reply # "error"
        /\ tool.reply = "pending" => ~IsBlank(diff_content)
        /\ ~ToolCalledOrchestrator => pc = "idle" /\ calls = NoCalls
        /\ tool.given = "blank" =>
              IF ~orchestrator
              THEN tool.reply = "no orchestrator" /\ tool.fetched = <<>>
              ELSE IF ~git_handler
              THEN tool.reply = "no git handler" /\ tool.fetched = <<>>
              ELSE /\ Len(tool.fetched) \in {1, 2}
                   /\ tool.fetched[1].from = "uncommitted"
                   /\ Len(tool.fetched) = 2
                         <=> tool.fetched[1].blank
                   /\ Len(tool.fetched) = 2 => tool.fetched[2].from = "branch"
                   /\ ToolCalledOrchestrator <=> ~NothingFetched
                   /\ ~ToolCalledOrchestrator <=> tool.reply = "no changes"

\* a blank diff_content has led to a blank fetch of the uncommitted changes and
\* to a branch diff that the orchestrator is now working on
C23_Witness ==
    /\ owner = "mcp" /\ tool.given = "blank"
    /\ Len(tool.fetched) = 2 /\ ~tool.fetched[2].blank
    /\ tool.reply = "pending" /\ pc = "draft"

\* C24: a process-changes request with a blank diff is answered with a
\* client-side error (a 4xx status), not with the status of a server-side
\* failure, and no documentation update is broadcast for it.
C24_BlankDiffIsClientError ==
    \A r \in 1..MaxRequests :
        handlers[r].blank /\ handlers[r].at = "done" =>
            /\ handlers[r].status \in 400..499
            /\ ~handlers[r].broadcast

\* C24 (what the code does keep): the request with a blank diff is answered
\* with an error status, nothing is broadcast for it and no snippet was run
\* for it; a request with any other diff is answered 200 after its broadcast.
C24_BlankDiffIsAnsweredWithError ==
    \A r \in 1..MaxRequests :
        handlers[r].at = "done" =>
            IF handlers[r].blank
            THEN /\ handlers[r].status = ServerError
                 /\ ~handlers[r].broadcast
                 /\ handlers[r].handles = {}
            ELSE handlers[r].status = Ok /\ handlers[r].broadcast

\* an execution of the batch has been asked for in this run
ExecutionAsked == k > 1 \/ calls.execute > 0 \/ calls.create > 0

\* C25: within one run on a non-empty change list the collaborators are
\* called in the order structure, draft, extract, execute batch, evaluate:
\* the draft is requested only after structuring returned, a snippet is
\* executed only after the extraction from the draft, and an evaluation is
\* asked for only when the whole batch has been executed and is what the
\* evaluation is given.
C25_CollaboratorOrder ==
    InRun /\ pc # "raised" =>
        /\ calls.structure = 1
        /\ calls.generate > 0 => structured_changes = StructureCodeChanges(diff_content)
        /\ pc = "draft" => calls.generate = 0 /\ ~ExecutionAsked /\ calls.evaluate = 0
        /\ pc = "extract" => ~ExecutionAsked /\ calls.evaluate = 0
        /\ calls.generate <= 1
        /\ pc = "execute" =>
              /\ code_snippets = ExtractCodeSnippets(documentation, structured_changes)
              /\ calls.evaluate = 0
        /\ calls.evaluate > 0 =>
              /\ k = Len(code_snippets) + 1
              /\ execution_results = FormatResults(code_snippets, results)
              /\ last_eval.code_snippets = execution_results

\* a run has returned after one structuring, one draft request, a batch of
\* two executions and an evaluation
C25_Witness ==
    /\ pc = "returned"
    /\ calls.structure = 1 /\ calls.generate = 1
    /\ calls.execute = 2 /\ Len(code_snippets) = 2
    /\ calls.evaluate >= 1

Extracted == InRun /\ pc \notin {"raised", "draft", "extract"} /\ HasChanges(structured_changes)

HasAdded(change) == Len(change.lines_added) > 0

\* the code_change snippets of the run, and the change records with added lines
CodeChangeSnippets == SelectSeq(code_snippets, LAMBDA sn : sn.source = "code_change")
RecordsWithAdded == SelectSeq(ParseDiff(diff_content), HasAdded)

\* the code_change snippets are, record by record, the first limit added
\* lines of the records that have added lines
SnippetPerRecord(limit) ==
    /\ Len(CodeChangeSnippets) = Len(RecordsWithAdded)
    /\ \A i \in 1..Len(RecordsWithAdded) :
          LET change == RecordsWithAdded[i]
              n == Len(change.lines_added)
          IN  /\ CodeChangeSnippets[i].id = <<"change_">> \o change.file_path
              /\ CodeChangeSnippets[i].language = change.language
              /\ CodeChangeSnippets[i].code =
                    Join(SubSeq(change.lines_added, 1, Min(n, limit)), <<NL>>)

\* C26: every change record with n > 0 added lines gives exactly one
\* code_change snippet, with id change_<file_path>, the record's language and
\* the first min(n, 20) added lines joined by newlines as its code; a record
\* with no added lines gives none.
C26_SnippetOfFirstTwentyLines == Extracted => SnippetPerRecord(ChangeSnippetLines)

\* C26 (what the code does keep): the same with the first min(n, 10) added
\* lines, the lines structure_code_changes keeps of a record.
C26_SnippetOfKeptLines == Extracted => SnippetPerRecord(SnippetLines)

\* a path-marker line as git writes it: '+++ ' and a path
IsPathMarker(line) == StartsWith(line, PLUS3 \o <<SP>>)

\* the path a marker line names, the marker and the a/ or b/ prefix removed
NamedPath(line) ==
    LET path == SubSeq(line, Len(PLUS3) + 2, Len(line))
    IN  IF StartsWith(path, <<"b", "/">>) \/ StartsWith(path, <<"a", "/">>)
        THEN SubSeq(path, 3, Len(path))
        ELSE path

MarkerLines(text) == SelectSeq(Split(text, NL), IsPathMarker)

NamedPaths(text) == {NamedPath(MarkerLines(text)[i]) : i \in 1..Len(MarkerLines(text))}

\* C27: the file_path of every change record is the path its section's '+++'
\* marker line names, the marker and the a/ or b/ prefix removed: no file_path
\* contains '+++', also for '+++ /dev/null' of a deleted file, and an added
\* line whose content starts with '++' does not change the path.
C27_FilePathWithoutMarker ==
    pc = "parsed"
        => \A i \in 1..Len(parsed) :
               /\ ~Contains(parsed[i].file_path, PLUS3)
               /\ parsed[i].file_path \in NamedPaths(diff_content)

\* C27 (what the code does strip): the same for diffs all of whose lines
\* starting with '+++' are markers '+++ b/<path>' or '+++ a/<path>'
C27_PrefixedMarkersStripped ==
    (/\ pc = "parsed"
     /\ \A j \in 1..Len(Split(diff_content, NL)) :
        LET line == Split(diff_content, NL)[j] IN
            StartsWith(line, PLUS3)
                => \/ StartsWith(line, PLUS3 \o <<SP, "b", "/">>)
                   \/ StartsWith(line, PLUS3 \o <<SP, "a", "/">>))
        => \A i \in 1..Len(parsed) :
               /\ ~Contains(parsed[i].file_path, PLUS3)
               /\ parsed[i].file_path \in NamedPaths(diff_content)

\* the sandboxes created and not deleted
Live(made, gone) == (1..made) \ gone

\* C28: a sandbox is created only by a snippet execution that finds none held,
\* never at construction; an execution that finds a sandbox held runs in it
\* and creates none, so executions with no cleanup in between share one
\* sandbox; and at most one sandbox is live at any time.
C28_OneLazySandbox ==
    [][/\ created' # created
            => /\ pc = "execute" /\ sandbox = 0
               /\ created' = created + 1 /\ sandbox' = created'
               /\ calls'.execute = calls.execute + 1
       /\ calls'.execute = calls.execute + 1 /\ sandbox # 0
            => sandbox' = sandbox /\ created' = created
       /\ Cardinality(Live(created', deleted')) <= 1
       /\ sandbox' # 0 => Live(created', deleted') = {sandbox'}]_vars

\* two snippets have run in the second sandbox, created after the first was deleted
C28_Witness ==
    /\ created = 2 /\ deleted = {1} /\ sandbox = 2
    /\ calls.create = 1 /\ calls.execute = 2

\* the first evaluation of the run has been made
FirstEvaluated ==
    pc \in {"loop", "revise", "reevaluate", "return", "returned"} /\ calls.evaluate >= 1

\* C29: with no generation client and the first overall_score below the
\* threshold, the loop runs exactly max_self_correction_attempts turns, each
\* re-evaluating the unchanged documentation against the unchanged execution
\* results, and the run returns the first documentation with the first score
\* and ready_to_commit false.
C29_NoClientLoopRunsOut ==
    FirstEvaluated /\ ~gemini_client /\ first_score < min_doc_quality_score
        => /\ documentation = FallbackDocumentation(structured_changes)
           /\ execution_results = FormatResults(code_snippets, results)
           /\ last_eval = [documentation |-> documentation,
                           code_snippets |-> execution_results]
           /\ evaluation.overall_score = first_score
           /\ calls.revise = 0
           /\ pc = "loop" => calls.evaluate = 1 + attempts
           /\ pc \in {"return", "returned"}
                 => /\ attempts = max_self_correction_attempts
                    /\ calls.evaluate = 1 + max_self_correction_attempts
           /\ pc = "returned"
                 => /\ ret.content = FallbackDocumentation(structured_changes)
                    /\ ret.evaluation_score = first_score
                    /\ ~ret.ready_to_commit

\* without a client the loop has run its two turns and the first draft is returned
C29_Witness ==
    /\ pc = "returned"
    /\ ~gemini_client
    /\ first_score >= 0 /\ first_score < min_doc_quality_score
    /\ max_self_correction_attempts = MaxAttemptsCfg
    /\ attempts = MaxAttemptsCfg
    /\ calls.evaluate = 1 + MaxAttemptsCfg
    /\ ret.content = FallbackDocumentation(structured_changes)

\* the self-correction loop of a run with a non-empty change list is over
LoopOver == pc \in {"return", "returned"} /\ calls.evaluate >= 1

RanOut == attempts = max_self_correction_attempts

\* C30: for a diff with a non-empty change list, a returned ready_to_commit
\* false means the loop completed max_self_correction_attempts turns or ended
\* on a failed revision request; the loop stops for no other reason while the
\* score is below the threshold; and when it stops with the score at the
\* threshold the result has ready_to_commit true.
C30_LoopStopsForThreeReasons ==
    LoopOver
        => /\ BelowThreshold(evaluation) => RanOut \/ broke
           /\ broke => BelowThreshold(evaluation)
           /\ pc = "returned"
                 => /\ ~ret.ready_to_commit => RanOut \/ broke
                    /\ ~BelowThreshold(evaluation) => ret.ready_to_commit
                    /\ ret.evaluation_score = evaluation.overall_score

\* a revision lifted the score to the threshold before the attempts ran out
C30_Witness ==
    /\ pc = "returned"
    /\ calls.revise = 1 /\ attempts = 1
    /\ max_self_correction_attempts = MaxAttemptsCfg
    /\ first_score < min_doc_quality_score
    /\ ret.ready_to_commit
====
